---- MODULE Spec2Model ----
(***************************************************************************)
(* A model of src/scm.c: a file-backed memory region mapped at a fixed     *)
(* address, with a header record (size, signature, checksum) and a bump    *)
(* allocator.                                                              *)
(*                                                                         *)
(* Machine words.  size_t and pointers are WordBits wide and every size_t  *)
(* operation is taken modulo 2^WordBits.  The checker's integers are       *)
(* narrower than the 64-bit words of the build, so the model runs on a     *)
(* narrower machine and the two constants of the source that do not fit    *)
(* in it are cut to their low 16 bits: SCM_SIGNATURE 0xDEEDBEED -> 0xBEED, *)
(* VM_ADDR 0x600000000003 -> 0x6003.  META_SIZE and the 4096-byte buffer   *)
(* of init_zero are as in the source.                                      *)
(*                                                                         *)
(* File contents.  The header is kept as a record; the bytes after it are  *)
(* a function from file offsets to the non-zero bytes stored there (an     *)
(* offset outside its domain holds 0).                                     *)
(***************************************************************************)
EXTENDS Integers, Sequences, FiniteSets, TLC

\* ------------------------------------------------------------ bounds
WordBits == 16
MaxPages == 2
Partial == 100
MaxAllocs == 2
MaxOpens == 2
FillByte == 170

\* --------------------------------------------------- program constants
META_SIZE == 24
SCM_SIGNATURE == 48877
VM_ADDR == 24579
ZeroBuf == 4096
PageSize == 4096
NULL == 0

\* ------------------------------------------------------ machine words
RECURSIVE Pow2(_)
Pow2(k) == IF k = 0 THEN 1 ELSE 2 * Pow2(k - 1)

Modulus == Pow2(WordBits)

\* size_t arithmetic: the result of + and - on size_t operands
Wrap(x) == x % Modulus

SIZE_MAX == Modulus - 1

\* (void *) -1
MAP_FAILED == Modulus - 1

RECURSIVE XorBits(_, _, _)
XorBits(a, b, k) ==
  IF k = 0 THEN 0
  ELSE (((a % 2) + (b % 2)) % 2) + 2 * XorBits(a \div 2, b \div 2, k - 1)

\* the ^ operator on two size_t values
Xor(a, b) == XorBits(a, b, WordBits)

AlignDown(x, a) == (x \div a) * a

Max(a, b) == IF a >= b THEN a ELSE b

RECURSIVE Count(_, _)
Count(s, x) ==
  IF s = <<>> THEN 0
  ELSE (IF Head(s) = x THEN 1 ELSE 0) + Count(Tail(s), x)

\* ------------------------------------------------------ metadata codec
\* struct metadata
Metadata(size, signature, checksum) ==
  [size |-> size, signature |-> signature, checksum |-> checksum]

calculate_checksum(meta) == Xor(meta.size, meta.signature)

\* the handle after memset(scm, 0, sizeof(struct scm))
ZeroScm == [fd |-> 0, mem |-> NULL, utilized |-> 0, capacity |-> 0]

\* an initialisation that leaves the checksum field as zero-filled
initialize_metadata_no_checksum(scm) ==
  [meta |-> Metadata(0, SCM_SIGNATURE, 0), scm |-> [scm EXCEPT !.utilized = 0]]

\* initialize_metadata: the header it writes and the handle it leaves
initialize_metadata(scm) ==
  LET m0 == Metadata(0, SCM_SIGNATURE, 0)
  IN  [meta |-> [m0 EXCEPT !.checksum = calculate_checksum(m0)],
       scm  |-> [scm EXCEPT !.utilized = 0]]

\* a loader that validates the signature only
load_metadata_signature_only(scm, meta) ==
  IF meta.signature # SCM_SIGNATURE THEN [rc |-> -1, scm |-> scm]
  ELSE [rc |-> 0, scm |-> [scm EXCEPT !.utilized = meta.size]]

\* load_metadata: its return code and the handle it leaves
load_metadata(scm, meta) ==
  IF meta.signature # SCM_SIGNATURE THEN [rc |-> -1, scm |-> scm]
  ELSE IF meta.checksum # calculate_checksum(meta) THEN [rc |-> -1, scm |-> scm]
  ELSE [rc |-> 0, scm |-> [scm EXCEPT !.utilized = meta.size]]

\* a store that never lowers the recorded size
store_metadata_keep_larger(scm, meta) ==
  LET m1 == [meta EXCEPT !.size = Max(meta.size, scm.utilized)]
  IN  [m1 EXCEPT !.checksum = calculate_checksum(m1)]

\* store_metadata: the header after the write
store_metadata(scm, meta) ==
  LET m1 == [meta EXCEPT !.size = scm.utilized]
  IN  [m1 EXCEPT !.checksum = calculate_checksum(m1)]

\* ------------------------------------------------------ backing file
\* A path names a regular file of len bytes (its first META_SIZE bytes read
\* as the record hdr, the rest as data) or something that is not a regular
\* file (kind "other": a device, whose st_size is 0).
NoData == [o \in {} |-> 0]

File(kind, len, hdr, data) ==
  [kind |-> kind, len |-> len, hdr |-> hdr, data |-> data]

\* the byte at file offset o (o >= META_SIZE)
ByteAt(f, o) == IF o \in DOMAIN f.data THEN f.data[o] ELSE 0

\* the file after byte v is stored at offset o (o >= META_SIZE)
PutByte(f, o, v) ==
  [f EXCEPT !.data =
     IF v = 0 THEN [x \in DOMAIN f.data \ {o} |-> f.data[x]]
     ELSE [x \in DOMAIN f.data \cup {o} |-> IF x = o THEN v ELSE f.data[x]]]

\* file_size: the handle it leaves, whether it freed the handle, whether it
\* closed the descriptor, its return code and the calls it made
file_size(scm, f, fstatOk) ==
  IF ~fstatOk
  THEN [scm |-> scm, freed |-> TRUE, closed |-> TRUE, rc |-> -1,
        log |-> <<"fstat_failed", "close", "free">>]
  ELSE IF f.kind = "regular"
  THEN LET cap == AlignDown(Wrap(f.len), PageSize)
       IN  [scm |-> [scm EXCEPT !.capacity = cap], freed |-> FALSE,
            closed |-> FALSE, rc |-> IF cap # 0 THEN -1 ELSE 0,
            log |-> <<"fstat">>]
  ELSE [scm |-> scm, freed |-> TRUE, closed |-> FALSE, rc |-> -1,
        log |-> <<"fstat", "free">>]

\* the write loop of init_zero: k-th write(2) of ZeroBuf zero bytes fails
\* when k = failAt
RECURSIVE ZeroLoop(_, _, _, _)
ZeroLoop(bytes_written, size, failAt, k) ==
  IF bytes_written < size
  THEN IF k = failAt
       THEN [rc |-> -1, written |-> bytes_written]
       ELSE ZeroLoop(Wrap(bytes_written + ZeroBuf), size, failAt, k + 1)
  ELSE [rc |-> 0, written |-> bytes_written]

\* the file after w zero bytes were written from offset 0
ZeroPrefix(f, w) ==
  IF f.kind # "regular" \/ w = 0 THEN f
  ELSE [f EXCEPT !.len = Max(f.len, w),
                 !.hdr = Metadata(0, 0, 0),
                 !.data = [x \in {y \in DOMAIN f.data : y >= w} |-> f.data[x]]]

\* init_zero: its return code and the file it leaves
init_zero(f, size, openOk, failAt) ==
  IF ~openOk THEN [rc |-> -1, file |-> f]
  ELSE LET z == ZeroLoop(0, size, failAt, 0)
       IN  [rc |-> z.rc, file |-> ZeroPrefix(f, z.written)]

\* mmap(addr, length, PROT_READ | PROT_WRITE, MAP_FIXED | MAP_SHARED, fd, 0):
\* EINVAL for a zero length, EBADF for a closed descriptor, or a failure of
\* the kernel to place the mapping; otherwise exactly addr
mmap(addr, length, fdOpen, ok) ==
  IF length = 0 \/ ~fdOpen \/ ~ok THEN MAP_FAILED ELSE addr

\* a mapping check that tests for NULL, which mmap never returns
mmap_failed_null(m) == m = NULL

\* the test scm->mem == MAP_FAILED
mmap_failed(m) == m = MAP_FAILED

\* what scm_open returns and leaves behind
OpenOut(handle, scm, f, log, freed) ==
  [handle |-> handle, scm |-> scm, file |-> f, log |-> log, freed |-> freed]

\* scm_open(pathname, truncate).  in.fault names the system call that
\* fails in this call, if any; in.fd is the descriptor open() returns;
\* in.brk is sbrk(0); in.uafCap is what a read of scm->capacity yields once
\* the handle has been freed (freed memory is indeterminate).
scm_open(f, in) ==
  IF in.fault = "malloc" THEN OpenOut(FALSE, ZeroScm, f, <<"malloc_failed">>, FALSE)
  ELSE IF in.fault = "open"
  THEN OpenOut(FALSE, ZeroScm, f, <<"malloc", "open_failed", "free">>, FALSE)
  ELSE
    LET s1 == [ZeroScm EXCEPT !.fd = in.fd]
        fs == file_size(s1, f, in.fault # "fstat")
        s2 == IF fs.freed THEN [fs.scm EXCEPT !.capacity = in.uafCap] ELSE fs.scm
        log2 == <<"malloc", "open">> \o fs.log \o <<"sbrk">>
        vm_addr == AlignDown(VM_ADDR, PageSize)
    IN
    IF vm_addr < in.brk
    THEN OpenOut(FALSE, s2, f, log2 \o <<"free">>, fs.freed)
    ELSE
      LET z == IF ~in.truncate THEN [rc |-> 0, file |-> f, log |-> <<>>]
               ELSE IF in.fault = "fstat2"
               THEN [rc |-> -1, file |-> f, log |-> <<"fstat_failed">>]
               ELSE LET r == init_zero(f, f.len, in.fault # "zopen",
                                       IF in.fault = "write" THEN in.failAt ELSE -1)
                    IN  [rc |-> r.rc, file |-> r.file, log |-> <<"fstat", "init_zero">>]
          log3 == log2 \o z.log
      IN
      IF z.rc # 0
      THEN OpenOut(FALSE, s2, z.file, log3 \o <<"close", "free">>, fs.freed)
      ELSE
        LET m  == mmap(vm_addr, s2.capacity, ~fs.closed, in.fault # "mmap")
            s3 == [s2 EXCEPT !.mem = m]
        IN
        IF mmap_failed(m)
        THEN OpenOut(FALSE, s3, z.file, log3 \o <<"mmap_failed", "free">>, fs.freed)
        ELSE
          LET hdr == IF f.kind = "regular" THEN z.file.hdr ELSE Metadata(0, 0, 0)
              im  == initialize_metadata(s3)
              lm  == load_metadata(s3, hdr)
              s4  == IF in.truncate THEN im.scm ELSE lm.scm
              f4  == IF in.truncate /\ f.kind = "regular"
                     THEN [z.file EXCEPT !.hdr = im.meta] ELSE z.file
              log4 == log3 \o <<"mmap">> \o
                      (IF in.truncate THEN <<"initialize_metadata">>
                       ELSE IF lm.rc = 0 THEN <<"load_metadata">>
                       ELSE <<"load_metadata_failed">>)
          IN OpenOut(TRUE, [s4 EXCEPT !.mem = Wrap(s4.mem + META_SIZE)],
                     f4, log4, fs.freed)

\* ------------------------------------------------------ allocator
\* an allocator that advances utilized before it tests the request
scm_malloc_advance_first(scm, n) ==
  IF Wrap(scm.utilized + n) <= scm.capacity
  THEN [p |-> Wrap(scm.mem + scm.utilized),
        scm |-> [scm EXCEPT !.utilized = Wrap(scm.utilized + n)]]
  ELSE [p |-> NULL, scm |-> [scm EXCEPT !.utilized = Wrap(scm.utilized + n)]]

\* scm_malloc: the pointer it returns and the handle it leaves
scm_malloc(scm, n) ==
  IF Wrap(scm.utilized + n) <= scm.capacity
  THEN [p |-> Wrap(scm.mem + scm.utilized),
        scm |-> [scm EXCEPT !.utilized = Wrap(scm.utilized + n)]]
  ELSE [p |-> NULL, scm |-> scm]

\* scm_strdup: the pointer it returns, the handle it leaves, the bytes
\* strcpy stores at dst (the string and its terminator) and the calls made
scm_strdup(scm, s) ==
  LET length == Wrap(Len(s) + 1)
      m == scm_malloc(scm, length)
  IN  [p |-> m.p, scm |-> m.scm, dst |-> m.p, bytes |-> s \o <<0>>,
       log |-> <<"strlen", "scm_malloc", "strcpy">>]

\* ------------------------------------------------------ mapped memory
\* While a handle is open the process maps file offsets [0, capacity) at
\* [mem - META_SIZE, mem - META_SIZE + capacity).
MapBase(scm) == scm.mem - META_SIZE

\* address a lies in the mapped bytes after the header
Mapped(scm, a) ==
  /\ MapBase(scm) + META_SIZE <= a
  /\ a < MapBase(scm) + scm.capacity

\* what a load from address a yields: the file's byte, or -1 for an access
\* outside the mapping
Load(f, scm, a) ==
  IF Mapped(scm, a) THEN ByteAt(f, a - MapBase(scm)) ELSE -1

\* the file after the bytes of seq b are stored from address a on; a store
\* outside the mapping does not reach the file
RECURSIVE Store(_, _, _, _)
Store(f, scm, a, b) ==
  IF b = <<>> THEN f
  ELSE Store(IF Mapped(scm, a) THEN PutByte(f, a - MapBase(scm), Head(b)) ELSE f,
             scm, Wrap(a + 1), Tail(b))

\* some byte of b stored from a on falls outside the mapping
Stray(scm, a, b) ==
  \E i \in 0 .. Len(b) - 1 : ~Mapped(scm, Wrap(a + i))

\* the caller's record of what it stored: address -> byte
RECURSIVE Note(_, _, _)
Note(e, a, b) ==
  IF b = <<>> THEN e
  ELSE Note([x \in DOMAIN e \cup {a} |-> IF x = a THEN Head(b) ELSE e[x]],
            Wrap(a + 1), Tail(b))

\* ------------------------------------------------------ close
\* a close that releases the mapping before it writes the header: the write
\* then no longer reaches the file
scm_close_unmap_first(scm, f, in) ==
  LET s1 == [scm EXCEPT !.mem = Wrap(scm.mem - META_SIZE)]
      unmap == IF s1.mem # NULL /\ s1.mem # MAP_FAILED
               THEN << IF in.msyncOk THEN "msync" ELSE "msync_failed",
                       IF in.munmapOk THEN "munmap" ELSE "munmap_failed" >>
               ELSE <<>>
      cl == IF s1.fd # 0
            THEN << IF in.closeOk THEN "close" ELSE "close_failed" >>
            ELSE <<>>
  IN  [file |-> f, log |-> unmap \o <<"store_metadata">> \o cl \o <<"free">>]

\* scm_close: the file it leaves and the calls it made
scm_close(scm, f, in) ==
  LET s1 == [scm EXCEPT !.mem = Wrap(scm.mem - META_SIZE)]
      f1 == [f EXCEPT !.hdr = store_metadata(s1, f.hdr)]
      unmap == IF s1.mem # NULL /\ s1.mem # MAP_FAILED
               THEN << IF in.msyncOk THEN "msync" ELSE "msync_failed",
                       IF in.munmapOk THEN "munmap" ELSE "munmap_failed" >>
               ELSE <<>>
      cl == IF s1.fd # 0
            THEN << IF in.closeOk THEN "close" ELSE "close_failed" >>
            ELSE <<>>
  IN  [file |-> f1, log |-> <<"store_metadata">> \o unmap \o cl \o <<"free">>]

\* ------------------------------------------------------ state
\* file:   the backing file
\* expect: the bytes the caller stored through pointers the allocator
\*         returned, by address (what the caller expects to find there)
\* proc:   per process: status ("none": no handle, "open": holds a handle,
\*         "ub": scm_open used the handle after freeing it, "crashed"),
\*         scm (the handle), regions (what the allocator returned since
\*         the open), fresh (the handle came from scm_open(path, 1)), u0
\*         (utilized when the handle was returned), closed (the handle as
\*         it was at the last scm_close, and who else held a handle on
\*         the file then), opens and allocs
\*         (counters), last (the last call: its input, return value, the
\*         handle before it and the calls it made), pfile (the file before
\*         the last scm_open or scm_close)
VARIABLES file, expect, proc

vars == <<file, expect, proc>>

AllProcs == {1, 2}

\* the processes that run in Spec
Actors == {1}

Hello == <<104, 101, 108, 108, 111>>

Strs == {Hello}

\* headers a file may hold before the first open: never initialised (all
\* zero), valid with some size, a foreign signature, a damaged checksum
InitHeaders ==
  { Metadata(0, 0, 0),
    Metadata(0, SCM_SIGNATURE, SCM_SIGNATURE),
    Metadata(Len(Hello) + 1, SCM_SIGNATURE, Xor(Len(Hello) + 1, SCM_SIGNATURE)),
    Metadata(MaxPages * PageSize, SCM_SIGNATURE,
             Xor(MaxPages * PageSize, SCM_SIGNATURE)),
    Metadata(Len(Hello) + 1, 1, Xor(Len(Hello) + 1, 1)),
    Metadata(Len(Hello) + 1, SCM_SIGNATURE, 0) }

InitFiles ==
  { File("regular", k * PageSize + r, Metadata(0, 0, 0), NoData) :
      k \in 0 .. MaxPages, r \in {0, Partial} }
  \cup { File("regular", PageSize, h, NoData) : h \in InitHeaders }
  \cup { File("regular", MaxPages * PageSize,
               Metadata(MaxPages * PageSize, SCM_SIGNATURE,
                        Xor(MaxPages * PageSize, SCM_SIGNATURE)), NoData) }
  \cup { File("other", 0, Metadata(0, 0, 0), NoData) }

Faults == {"none", "malloc", "open", "fstat", "fstat2", "zopen", "write", "mmap"}

\* the inputs of one scm_open call on file f: at most one thing goes wrong
\* in a call (a failing system call, or a program break above the fixed
\* address), and inputs the call never reads are held at one value
OpenInputs(f) ==
  { in \in [truncate : BOOLEAN, fault : Faults, fd : {0, 3},
            brk : {PageSize, AlignDown(VM_ADDR, PageSize) + 1},
            uafCap : {0, PageSize}, failAt : {0, 1}] :
      /\ in.fault # "write" => in.failAt = 0
      /\ in.fault # "none" => (in.fd = 3 /\ in.brk = PageSize)
      /\ (in.fault # "fstat" /\ f.kind = "regular") => in.uafCap = 0 }

\* the inputs of one scm_close call: at most one system call fails
CloseInputs ==
  { in \in [msyncOk : BOOLEAN, munmapOk : BOOLEAN, closeOk : BOOLEAN] :
      Cardinality({k \in {"msyncOk", "munmapOk", "closeOk"} : ~in[k]}) <= 1 }

\* the request sizes tried on a handle: one byte, all that is left, the
\* largest size_t
AllocSizes(scm) ==
  {1, Wrap(scm.capacity - scm.utilized), SIZE_MAX}

NoCall == [op |-> "none", in |-> 0, ret |-> NULL, pre |-> ZeroScm, log |-> <<>>]

NoClose ==
  [was |-> FALSE, fresh |-> FALSE, mem |-> NULL, utilized |-> 0, capacity |-> 0,
   peers |-> {}]

\* the record of a close: the handle as it was, and the processes that held
\* a handle on the file at that moment
Closed(scm, fresh, peers) ==
  [was |-> TRUE, fresh |-> fresh, mem |-> scm.mem, utilized |-> scm.utilized,
   capacity |-> scm.capacity, peers |-> peers]

Call(op, in, ret, pre, log) ==
  [op |-> op, in |-> in, ret |-> ret, pre |-> pre, log |-> log]

Init ==
  /\ file \in InitFiles
  /\ expect = NoData
  /\ proc = [p \in AllProcs |->
               [status |-> "none", scm |-> ZeroScm, regions |-> <<>>,
                fresh |-> FALSE, u0 |-> 0, closed |-> NoClose, opens |-> 0,
                allocs |-> 0, last |-> NoCall, pfile |-> file]]

\* p calls scm_open; a caller whose scm_open returned no handle does not
\* call it again
Open(p) ==
  /\ proc[p].status = "none"
  /\ proc[p].last.op # "open"
  /\ proc[p].opens < MaxOpens
  /\ \E in \in OpenInputs(file) :
       LET r == scm_open(file, in)
       IN  /\ file' = r.file
           /\ expect' = IF in.truncate THEN NoData ELSE expect
           /\ proc' = [proc EXCEPT ![p] =
                [status |-> IF r.freed THEN "ub"
                            ELSE IF r.handle THEN "open" ELSE "none",
                 scm |-> IF r.handle /\ ~r.freed THEN r.scm ELSE ZeroScm,
                 regions |-> <<>>,
                 fresh |-> r.handle /\ ~r.freed /\ in.truncate,
                 u0 |-> IF r.handle /\ ~r.freed THEN r.scm.utilized ELSE 0,
                 closed |-> IF in.truncate THEN NoClose ELSE proc[p].closed,
                 opens |-> proc[p].opens + 1,
                 allocs |-> proc[p].allocs,
                 last |-> Call("open", in, IF r.handle THEN r.scm.mem ELSE NULL,
                               ZeroScm, r.log),
                 pfile |-> file]]

\* The caller stores into a region scm_malloc returned before it makes its
\* next call, unless the region is empty or larger than the whole store.
MustFill(p) ==
  /\ proc[p].status = "open"
  /\ proc[p].last.op = "malloc"
  /\ proc[p].last.ret # NULL
  /\ proc[p].last.in > 0
  /\ proc[p].last.in <= proc[p].scm.capacity

\* p calls scm_malloc(handle, n)
Malloc(p) ==
  /\ proc[p].status = "open"
  /\ ~MustFill(p)
  /\ \E n \in AllocSizes(proc[p].scm) :
       LET r == scm_malloc(proc[p].scm, n)
       IN  /\ r.p # NULL => proc[p].allocs < MaxAllocs
           /\ proc' = [proc EXCEPT ![p] =
                [@ EXCEPT !.scm = r.scm,
                          !.regions = IF r.p # NULL
                                      THEN Append(@, [p |-> r.p, n |-> n]) ELSE @,
                          !.allocs = IF r.p # NULL THEN @ + 1 ELSE @,
                          !.last = Call("malloc", n, r.p, proc[p].scm, <<>>),
                          !.pfile = file]]
           /\ UNCHANGED <<file, expect>>

\* p calls scm_strdup(handle, s); a store outside the mapping either ends
\* the process (SIGSEGV) or lands in memory that is not the file
Strdup(p) ==
  /\ proc[p].status = "open"
  /\ ~MustFill(p)
  /\ \E s \in Strs, ub \in {"segv", "stray"} :
       LET r == scm_strdup(proc[p].scm, s)
           bad == Stray(proc[p].scm, r.dst, r.bytes)
       IN  /\ r.p # NULL => proc[p].allocs < MaxAllocs
           /\ ~bad => ub = "stray"
           /\ file' = Store(file, proc[p].scm, r.dst, r.bytes)
           /\ expect' = IF r.p # NULL THEN Note(expect, r.dst, r.bytes) ELSE expect
           /\ proc' = [proc EXCEPT ![p] =
                [@ EXCEPT !.status = IF bad /\ ub = "segv" THEN "crashed" ELSE @,
                          !.scm = r.scm,
                          !.regions = IF r.p # NULL
                                      THEN Append(@, [p |-> r.p, n |-> Len(r.bytes)])
                                      ELSE @,
                          !.allocs = IF r.p # NULL THEN @ + 1 ELSE @,
                          !.last = Call("strdup", s, r.p, proc[p].scm, r.log),
                          !.pfile = file']]

\* p fills the region scm_malloc has just returned: it stores FillByte in
\* the region's first and last byte
Fill(p) ==
  /\ MustFill(p)
  /\ \E i \in {Len(proc[p].regions)}, ub \in {"segv", "stray"} :
       LET g == proc[p].regions[i]
           last == Wrap(g.p + g.n - 1)
           bad == ~Mapped(proc[p].scm, g.p) \/ ~Mapped(proc[p].scm, last)
           f1 == Store(file, proc[p].scm, g.p, <<FillByte>>)
       IN  /\ ~bad => ub = "stray"
           /\ file' = Store(f1, proc[p].scm, last, <<FillByte>>)
           /\ expect' = Note(Note(expect, g.p, <<FillByte>>), last, <<FillByte>>)
           /\ proc' = [proc EXCEPT ![p] =
                [@ EXCEPT !.status = IF bad /\ ub = "segv" THEN "crashed" ELSE @,
                          !.last = Call("fill", i, NULL, proc[p].scm, <<>>),
                          !.pfile = file']]

\* p calls scm_close(handle)
Close(p) ==
  /\ proc[p].status = "open"
  /\ ~MustFill(p)
  /\ \E in \in CloseInputs :
       LET r == scm_close(proc[p].scm, file, in)
       IN  /\ file' = r.file
           /\ proc' = [proc EXCEPT ![p] =
                [@ EXCEPT !.status = "none",
                          !.regions = <<>>,
                          !.closed = Closed(proc[p].scm, proc[p].fresh,
                                             {q \in AllProcs \ {p} :
                                                proc[q].status = "open"}),
                          !.fresh = FALSE,
                          !.last = Call("close", in, NULL, proc[p].scm, r.log),
                          !.pfile = file]]
           /\ UNCHANGED expect

Next ==
  \E p \in Actors :
    \/ Open(p)
    \/ Malloc(p)
    \/ Strdup(p)
    \/ Fill(p)
    \/ Close(p)

Spec == Init /\ [][Next]_vars

\* ------------------------------------------------------ claims
\* a header record that load_metadata is specified to accept
HeaderValid(m) ==
  m.signature = SCM_SIGNATURE /\ m.checksum = Xor(m.size, m.signature)

\* p's last call was scm_open(path, 0)
Reopened(p) == proc[p].last.op = "open" /\ ~proc[p].last.in.truncate

\* p's last call was scm_open(path, 0), it returned a handle, and p had
\* closed a handle on the file before
ReopenedAfterClose(p) ==
  Reopened(p) /\ proc[p].status = "open" /\ proc[p].closed.was

\* C1: scm_open(path, 0) on a regular file whose header has a foreign
\* signature or a checksum other than size XOR signature returns no handle.
C1_ReopenRejectsBadHeader ==
  \A p \in AllProcs :
    ( /\ Reopened(p)
      /\ proc[p].pfile.kind = "regular"
      /\ ~HeaderValid(proc[p].pfile.hdr) )
    => (proc[p].last.ret = NULL /\ proc[p].status # "open")

\* C2: a handle closed with utilized = U <= capacity and reopened with
\* truncate = 0 reports utilized = U.
C2_UsageRoundTrip ==
  \A p \in AllProcs :
    (ReopenedAfterClose(p) /\ proc[p].closed.utilized <= proc[p].closed.capacity)
    => proc[p].scm.utilized = proc[p].closed.utilized

\* C3: for a handle returned by scm_open(path, 1): after scm_close and
\* scm_open(path, 0) the usable base is the same address and every byte the caller stored in a region the allocator
\* returned is read back at the same address.
C3_ContentRoundTrip ==
  \A p \in AllProcs :
    (ReopenedAfterClose(p) /\ proc[p].closed.fresh)
    => /\ proc[p].scm.mem = proc[p].closed.mem
       /\ \A a \in DOMAIN expect : Load(file, proc[p].scm, a) = expect[a]

RECURSIVE SumN(_)
SumN(gs) == IF gs = <<>> THEN 0 ELSE Head(gs).n + SumN(Tail(gs))

\* the byte ranges [g.p, g.p + g.n) and [h.p, h.p + h.n) share an address
Overlap(g, h) ==
  /\ g.n > 0
  /\ h.n > 0
  /\ (Wrap(h.p - g.p) < g.n \/ Wrap(g.p - h.p) < h.n)

\* C4: on a handle returned by scm_open(path, 1), after successful requests of
\* n_1 .. n_N bytes utilized is n_1 + ... + n_N and no two of the returned
\* ranges overlap.
C4_SumAndNoOverlap ==
  \A p \in AllProcs :
    (proc[p].status = "open" /\ proc[p].fresh)
    => /\ proc[p].scm.utilized = SumN(proc[p].regions)
       /\ \A i, j \in 1 .. Len(proc[p].regions) :
            i < j => ~Overlap(proc[p].regions[i], proc[p].regions[j])

\* C6: an open handle has 0 <= utilized <= capacity.
C6_UtilizedWithinCapacity ==
  \A p \in AllProcs :
    proc[p].status = "open"
    => (0 <= proc[p].scm.utilized /\ proc[p].scm.utilized <= proc[p].scm.capacity)

\* C2 holds of the handles that came from scm_open(path, 1): the round trip
\* fails only where scm_open(path, 0) returned a handle on a bad header
C2_FreshHandlesRoundTrip ==
  \A p \in AllProcs :
    (ReopenedAfterClose(p) /\ proc[p].closed.fresh)
    => proc[p].scm.utilized = proc[p].closed.utilized

\* C5: a request of capacity - utilized bytes succeeds and brings utilized
\* to capacity; after it a request of 1 byte fails, and so does the same
\* request made again (it succeeds exactly once).
C5_ExhaustionBoundary ==
  \A p \in AllProcs :
    ( /\ proc[p].status = "open"
      /\ proc[p].last.op = "malloc"
      /\ proc[p].last.in = Wrap(proc[p].last.pre.capacity - proc[p].last.pre.utilized) )
    => /\ proc[p].last.ret # NULL
       /\ proc[p].scm.utilized = proc[p].scm.capacity
       /\ scm_malloc(proc[p].scm, 1).p = NULL
       /\ proc[p].last.in > 0 => scm_malloc(proc[p].scm, proc[p].last.in).p = NULL

\* C5 holds of the handles with utilized <= capacity
C5_WithinCapacity ==
  \A p \in AllProcs :
    ( /\ proc[p].status = "open"
      /\ proc[p].last.op = "malloc"
      /\ proc[p].last.pre.utilized <= proc[p].last.pre.capacity
      /\ proc[p].last.in = Wrap(proc[p].last.pre.capacity - proc[p].last.pre.utilized) )
    => /\ proc[p].last.ret # NULL
       /\ proc[p].scm.utilized = proc[p].scm.capacity
       /\ scm_malloc(proc[p].scm, 1).p = NULL
       /\ proc[p].last.in > 0 => scm_malloc(proc[p].scm, proc[p].last.in).p = NULL

\* C7: after a scm_malloc that returned NULL the handle is as it was before
\* the call, and a request that fits in what is left succeeds.
C7_FailedMallocKeepsHandle ==
  \A p \in AllProcs :
    ( /\ proc[p].status = "open"
      /\ proc[p].last.op = "malloc"
      /\ proc[p].last.ret = NULL )
    => /\ proc[p].scm = proc[p].last.pre
       /\ \A n \in AllocSizes(proc[p].scm) :
            proc[p].scm.utilized + n <= proc[p].scm.capacity
            => LET r == scm_malloc(proc[p].scm, n)
               IN  r.p # NULL /\ r.scm.utilized = proc[p].scm.utilized + n

\* C7 witness: a request was refused while room was left
C7_Witness ==
  \E p \in AllProcs :
    /\ proc[p].status = "open"
    /\ proc[p].last.op = "malloc"
    /\ proc[p].last.ret = NULL
    /\ proc[p].last.in > 0
    /\ proc[p].scm.utilized < proc[p].scm.capacity

\* C8: on a handle with utilized <= capacity, scm_strdup of a string whose
\* strlen + 1 bytes do not fit returns NULL, stores nothing and leaves
\* utilized alone; when they fit utilized grows by strlen + 1.
C8_StrdupPropagatesExhaustion ==
  \A p \in AllProcs :
    (proc[p].last.op = "strdup" /\ proc[p].last.pre.utilized <= proc[p].last.pre.capacity)
    => IF proc[p].last.pre.utilized + Len(proc[p].last.in) + 1
            <= proc[p].last.pre.capacity
       THEN proc[p].scm.utilized
              = proc[p].last.pre.utilized + Len(proc[p].last.in) + 1
       ELSE /\ proc[p].last.ret = NULL
            /\ proc[p].scm.utilized = proc[p].last.pre.utilized
            /\ Count(proc[p].last.log, "strcpy") = 0
            /\ proc[p].status = "open"

\* C9: a scm_open that returns no handle has released the descriptor and
\* the handle it acquired, each exactly once.
C9_FailedOpenReleasesAll ==
  \A p \in AllProcs :
    (proc[p].last.op = "open" /\ proc[p].last.ret = NULL)
    => /\ Count(proc[p].last.log, "free") = Count(proc[p].last.log, "malloc")
       /\ Count(proc[p].last.log, "close") = Count(proc[p].last.log, "open")

\* C10: scm_open on a regular file shorter than a page returns no handle,
\* and a handle that scm_open returned has capacity > 0.
C10_EmptyStoreRejected ==
  \A p \in AllProcs :
    /\ ( /\ proc[p].last.op = "open"
         /\ proc[p].pfile.kind = "regular"
         /\ AlignDown(proc[p].pfile.len, PageSize) = 0 )
       => (proc[p].last.ret = NULL /\ proc[p].status # "open")
    /\ proc[p].status = "open" => proc[p].scm.capacity > 0

\* C10 witness: scm_open got as far as mmap on a file shorter than a page,
\* with no system call failing, and returned no handle
C10_Witness ==
  \E p \in AllProcs :
    /\ proc[p].last.op = "open"
    /\ proc[p].last.in.fault = "none"
    /\ proc[p].pfile.kind = "regular"
    /\ proc[p].pfile.len < PageSize
    /\ Count(proc[p].last.log, "mmap_failed") = 1
    /\ proc[p].last.ret = NULL

\* the calls of log that operate on the handle or the file after the stat
\* stage: the address check, the zero-fill, mmap, the metadata access
LaterSteps(log) ==
  Count(log, "sbrk") + Count(log, "init_zero") + Count(log, "mmap")
  + Count(log, "mmap_failed") + Count(log, "initialize_metadata")
  + Count(log, "load_metadata") + Count(log, "load_metadata_failed")

\* C11: scm_open on something that is not a regular file (open and fstat
\* succeeding) returns no handle and runs no step after the stat stage.
C11_NotRegularRejected ==
  \A p \in AllProcs :
    ( /\ proc[p].last.op = "open"
      /\ proc[p].last.in.fault = "none"
      /\ proc[p].pfile.kind = "other" )
    => /\ proc[p].last.ret = NULL
       /\ LaterSteps(proc[p].last.log) = 0

\* C12: right after scm_open(path, 1) returned a handle on a regular file,
\* utilized is 0, capacity is the length the file had at the call rounded
\* down to whole pages, the header is (0, SCM_SIGNATURE, matching checksum)
\* and no earlier content is left; no later call on the handle changes
\* capacity.
C12_FreshOpenPostcondition ==
  \A p \in AllProcs :
    /\ ( /\ proc[p].last.op = "open"
         /\ proc[p].last.in.truncate
         /\ proc[p].status = "open" )
       => /\ proc[p].pfile.len >= PageSize
          /\ proc[p].scm.utilized = 0
          /\ proc[p].scm.capacity = AlignDown(proc[p].pfile.len, PageSize)
          /\ file.hdr.size = 0
          /\ file.hdr.signature = SCM_SIGNATURE
          /\ file.hdr.checksum = Xor(file.hdr.size, file.hdr.signature)
          /\ file.data = NoData
    /\ ( /\ proc[p].status = "open"
         /\ proc[p].last.op \in {"malloc", "strdup", "fill"} )
       => proc[p].scm.capacity = proc[p].last.pre.capacity

\* C12 witness: scm_open(path, 1) returned a handle on a file that held a
\* header with a non-zero size and stored bytes
C12_Witness ==
  \E p \in AllProcs :
    /\ proc[p].last.op = "open"
    /\ proc[p].last.in.truncate
    /\ proc[p].status = "open"
    /\ proc[p].pfile.hdr.size > 0
    /\ proc[p].pfile.data # NoData

\* ------------------------------------------------------ metadata codec alone
\* The codec applied to header records drawn from bounded values: sizes,
\* signatures and checksums that are right, off by a bit, zero or all ones.
CodecSizes == {0, Len(Hello) + 1, PageSize, SIZE_MAX}

CodecSignatures == {0, SCM_SIGNATURE, Xor(SCM_SIGNATURE, 1), SIZE_MAX}

CodecHeaders ==
  { Metadata(sz, sg, ck) :
      sz \in CodecSizes, sg \in CodecSignatures,
      ck \in {0, SIZE_MAX} \cup { Xor(a, b) : a \in CodecSizes, b \in CodecSignatures } }

InitCodec ==
  /\ file \in { File("regular", PageSize, h, NoData) : h \in CodecHeaders }
  /\ expect = NoData
  /\ proc = [p \in AllProcs |->
               [status |-> "none", scm |-> ZeroScm, regions |-> <<>>,
                fresh |-> FALSE, u0 |-> 0, closed |-> NoClose, opens |-> 0,
                allocs |-> 0, last |-> NoCall, pfile |-> file]]

\* p applies load_metadata to the header of the file, on a handle as the
\* memset of scm_open left it
LoadHeader(p) ==
  /\ proc[p].last.op # "load_metadata"
  /\ LET r == load_metadata(ZeroScm, file.hdr)
     IN  proc' = [proc EXCEPT ![p] =
                    [@ EXCEPT !.scm = r.scm,
                              !.last = Call("load_metadata", file.hdr, r.rc,
                                            ZeroScm, <<>>),
                              !.pfile = file]]
  /\ UNCHANGED <<file, expect>>

\* p applies store_metadata to the header of the file with the handle a
\* load left
StoreHeader(p) ==
  /\ proc[p].last.op = "load_metadata"
  /\ file' = [file EXCEPT !.hdr = store_metadata(proc[p].scm, file.hdr)]
  /\ proc' = [proc EXCEPT ![p] =
                [@ EXCEPT !.last = Call("store_metadata", file.hdr, 0,
                                        proc[p].scm, <<>>),
                          !.pfile = file]]
  /\ UNCHANGED expect

NextCodec ==
  \E p \in Actors :
    \/ LoadHeader(p)
    \/ StoreHeader(p)

SpecCodec == InitCodec /\ [][NextCodec]_vars

\* C13: load_metadata returns 0 exactly for the headers whose signature is
\* SCM_SIGNATURE and whose checksum is size XOR signature, and then utilized
\* is the stored size.
C13_LoadAcceptsExactlyValid ==
  \A p \in AllProcs :
    proc[p].last.op = "load_metadata"
    => LET m == proc[p].last.in
       IN  /\ (proc[p].last.ret = 0)
                <=> (m.signature = SCM_SIGNATURE
                     /\ m.checksum = Xor(m.size, m.signature))
           /\ proc[p].last.ret = 0 => proc[p].scm.utilized = m.size
           /\ proc[p].last.ret # 0 => proc[p].last.ret = -1

\* C13 witness: a header with the right signature, a non-zero size and a
\* checksum that does not match was rejected
C13_Witness ==
  \E p \in AllProcs :
    /\ proc[p].last.op = "load_metadata"
    /\ proc[p].last.in.signature = SCM_SIGNATURE
    /\ proc[p].last.in.size > 0
    /\ proc[p].last.in.checksum # Xor(proc[p].last.in.size, SCM_SIGNATURE)
    /\ proc[p].last.ret = -1

\* C14: every scm_close, whatever descriptor the handle holds and whether
\* msync or munmap fail, calls close on the descriptor once and frees the
\* handle once.
C14_CloseReleasesAll ==
  \A p \in AllProcs :
    proc[p].last.op = "close"
    => /\ Count(proc[p].last.log, "close")
            + Count(proc[p].last.log, "close_failed") = 1
       /\ Count(proc[p].last.log, "free") = 1

\* C14 holds of the handles whose descriptor is not 0, with msync or munmap
\* failing or not
C14_NonZeroDescriptor ==
  \A p \in AllProcs :
    (proc[p].last.op = "close" /\ proc[p].last.pre.fd # 0)
    => /\ Count(proc[p].last.log, "close")
            + Count(proc[p].last.log, "close_failed") = 1
       /\ Count(proc[p].last.log, "free") = 1

\* C15: no step changes the length of the backing file.
C15_FileNeverGrows == [][file'.len = file.len]_vars

\* the place of a call in the close protocol: header write, flush, unmap,
\* descriptor close, free
Rank(step) ==
  CASE step = "store_metadata" -> 1
    [] step \in {"msync", "msync_failed"} -> 2
    [] step \in {"munmap", "munmap_failed"} -> 3
    [] step \in {"close", "close_failed"} -> 4
    [] step = "free" -> 5
    [] OTHER -> 0

\* C16: scm_close on a handle scm_open returned starts from the address
\* mmap returned, writes the header once and first, then calls msync, then
\* munmap, then close, then free, each at most once and in that order; the
\* header then holds utilized and the matching checksum.
C16_CloseOrdering ==
  \A p \in AllProcs :
    proc[p].last.op = "close"
    => LET log == proc[p].last.log
       IN  /\ Wrap(proc[p].last.pre.mem - META_SIZE) = AlignDown(VM_ADDR, PageSize)
           /\ \A i \in 1 .. Len(log) : Rank(log[i]) > 0
           /\ \A i, j \in 1 .. Len(log) : i < j => Rank(log[i]) < Rank(log[j])
           /\ Count(log, "store_metadata") = 1
           /\ \E i \in 1 .. Len(log) : Rank(log[i]) = 2
           /\ \E i \in 1 .. Len(log) : Rank(log[i]) = 3
           /\ Count(log, "free") = 1
           /\ file.hdr.size = proc[p].last.pre.utilized
           /\ file.hdr.checksum = Xor(file.hdr.size, file.hdr.signature)
           /\ file.hdr.signature = proc[p].pfile.hdr.signature

\* C16 witness: a close of a handle with utilized > 0 that ran every step
\* although msync failed
C16_Witness ==
  \E p \in AllProcs :
    /\ proc[p].last.op = "close"
    /\ proc[p].last.pre.utilized > 0
    /\ proc[p].last.log
         = <<"store_metadata", "msync_failed", "munmap", "close", "free">>

\* C17: on a handle with utilized <= capacity, a scm_malloc(n) that returns
\* a pointer had utilized + n <= capacity as integers, and no scm_malloc
\* leaves utilized smaller than it was.
C17_NoWrapAround ==
  \A p \in AllProcs :
    ( /\ proc[p].status = "open"
      /\ proc[p].last.op = "malloc"
      /\ proc[p].last.pre.utilized <= proc[p].last.pre.capacity )
    => /\ proc[p].last.ret # NULL
            => proc[p].last.pre.utilized + proc[p].last.in
                 <= proc[p].last.pre.capacity
       /\ proc[p].scm.utilized >= proc[p].last.pre.utilized

\* C19: on a handle returned by scm_open(path, 1), every byte of every
\* region the allocator returned lies in the mapped bytes after the header,
\* and utilized never exceeds capacity - META_SIZE.
C19_RegionsInsideMapping ==
  \A p \in AllProcs :
    (proc[p].status = "open" /\ proc[p].fresh)
    => /\ \A i \in 1 .. Len(proc[p].regions) :
            LET g == proc[p].regions[i]
            IN  g.n > 0 => /\ Mapped(proc[p].scm, g.p)
                           /\ Mapped(proc[p].scm, g.p + g.n - 1)
       /\ proc[p].scm.utilized <= proc[p].scm.capacity - META_SIZE

\* C20: scm_open(path, 0) on a regular file whose header is invalid leaves
\* the file as it was, and so does the scm_close of the handle it returned
\* (a handle on which nothing was allocated).
C20_InvalidFileUntouched ==
  \A p \in AllProcs :
    /\ ( /\ Reopened(p)
         /\ proc[p].pfile.kind = "regular"
         /\ ~HeaderValid(proc[p].pfile.hdr) )
       => file = proc[p].pfile
    /\ ( /\ proc[p].last.op = "close"
         /\ ~proc[p].closed.fresh
         /\ proc[p].allocs = 0
         /\ proc[p].pfile.kind = "regular"
         /\ ~HeaderValid(proc[p].pfile.hdr) )
       => file = proc[p].pfile

\* ------------------------------------------------------ two processes
\* Two processes, each with its own handle and its own MAP_SHARED mapping of
\* the same store at the same fixed address: every store of either process
\* lands in the one file.  The store is one page with a valid header; no
\* system call fails, every descriptor is 3 and each process opens the file
\* once, without truncate.
InitShared ==
  /\ Init
  /\ file.kind = "regular"
  /\ file.len = PageSize
  /\ HeaderValid(file.hdr)
  /\ file.hdr.size <= PageSize

OpenShared(p) ==
  /\ proc[p].opens = 0
  /\ Open(p)
  /\ proc'[p].last.in.fault = "none"
  /\ proc'[p].last.in.fd # 0
  /\ proc'[p].last.in.brk = PageSize
  /\ ~proc'[p].last.in.truncate

CloseShared(p) ==
  /\ Close(p)
  /\ proc'[p].last.in.msyncOk
  /\ proc'[p].last.in.munmapOk
  /\ proc'[p].last.in.closeOk

NextShared ==
  \E p \in AllProcs :
    \/ OpenShared(p)
    \/ Malloc(p)
    \/ Strdup(p)
    \/ Fill(p)
    \/ CloseShared(p)

SpecShared == InitShared /\ [][NextShared]_vars

\* C18: when q closed its handle while p still held one and p closed after
\* it, the header holds the utilized of p's handle and that is what the next
\* scm_open(path, 0) loads.
C18_LastCloserWins ==
  \A p, q \in AllProcs :
    ( /\ p # q
      /\ proc[p].status = "none"
      /\ proc[q].status = "none"
      /\ proc[p].closed.was
      /\ proc[q].closed.was
      /\ p \in proc[q].closed.peers )
    => /\ file.hdr.size = proc[p].closed.utilized
       /\ LET r == load_metadata(ZeroScm, file.hdr)
          IN  r.rc = 0 /\ r.scm.utilized = proc[p].closed.utilized

\* C18 witness: both processes allocated on handles they held at once, both
\* closed, and the header holds the size of the later closer, which is
\* smaller than what the earlier closer had recorded
C18_Witness ==
  \E p, q \in AllProcs :
    /\ p # q
    /\ proc[p].status = "none"
    /\ proc[q].status = "none"
    /\ proc[p].closed.was
    /\ proc[q].closed.was
    /\ p \in proc[q].closed.peers
    /\ proc[p].closed.utilized > proc[p].u0
    /\ proc[q].closed.utilized > proc[q].u0
    /\ proc[q].closed.utilized > proc[p].closed.utilized
    /\ file.hdr.size = proc[p].closed.utilized

====
